---------------------------- MODULE Spec2Model ----------------------------
(***************************************************************************)
(* Model of the two scripts of the protein-discovery pipeline:             *)
(*   02_ActSeek_process_pipeline.py  (the main stage, labels m1 .. m7)     *)
(*   seed_selector.py                (the seed-selection stage, s1 .. s5)  *)
(* Both scripts are straight-line programs over a shared working           *)
(* directory.  The state is that directory (hits file, seed-accession      *)
(* file, structure files, manifest, config.json, result log), the          *)
(* position and locals of the script that is running, and a per-run        *)
(* record of what the run did (network requests, file writes, tool         *)
(* invocations, the order of its steps).                                   *)
(*                                                                         *)
(* Text that the code parses (hit lines, accessions, paths) is a sequence  *)
(* of one-character strings; a file is <<>> when absent and <<content>>    *)
(* when present.                                                           *)
(***************************************************************************)
EXTENDS Integers, Sequences, FiniteSets, TLC

VARIABLES
    pc,                 \* position of the running script; "idle", "done", "fatal" between runs
    stage,              \* "none", "main" or "seed": the script running or last run
    hits,               \* uncharacterized_hits.txt: <<>> or <<sequence of lines>>
    recs,               \* how the lines of the hits file were produced (history)
    seedIdFile,         \* query_seed_accession.txt: <<>> or <<text>>
    files,              \* structure files: path -> content
    manifest,           \* test.txt: <<>> or <<sequence of accessions, one per line>>
    config,             \* config.json: <<>> or <<mapping>>
    resultLog,          \* ../results/actseek_results.txt: <<>> or <<sequence of written pieces>>
    accessions,         \* main stage local: raw accessions, in file order
    unique_accessions,  \* main stage local: sorted(set(accessions))
    idx,                \* main stage local: position of the STEP 4 loop
    actseek_command,    \* main stage local: the command built in STEP 6
    toolResult,         \* main stage local: <<>> or <<[rc, out, err]>> of subprocess.run
    netLog,             \* this run's HTTP requests, in order
    writes,             \* this run's file writes
    toolCalls,          \* this run's invocations of the external tool
    events,             \* this run's steps, in order
    files0,             \* structure files when this run started
    config0,            \* config.json when this run started
    seedFresh           \* a seed-selection run has completed normally, and no
                        \* structure file has been removed since

vars == <<pc, stage, hits, recs, seedIdFile, files, manifest, config, resultLog,
          accessions, unique_accessions, idx, actseek_command, toolResult,
          netLog, writes, toolCalls, events, files0, config0, seedFresh>>

-----------------------------------------------------------------------------
(* Bounds of the model *)

\* longest hits file of the extraction specification
MaxLines == 5
\* longest hits file of the pipeline specification
MaxHits == 2

-----------------------------------------------------------------------------
(* Text *)

Range(s) == {s[i] : i \in DOMAIN s}

\* characters in code-point order, as Python compares them
Alphabet == <<"\t", "\n", " ", "-", ".", "/",
              "0", "1", "2", "3", "4", "5", "6", "7", "8", "9",
              "A", "B", "C", "D", "E", "F", "P", "Q", "X",
              "_", "a", "b", "d", "e", "f", "l", "m", "o", "p", "q", "v", "x">>

Ord(c) == CHOOSE i \in DOMAIN Alphabet : Alphabet[i] = c

Whitespace == {"\t", "\n", " "}
UpperOrDigit == {"0", "1", "2", "3", "4", "5", "6", "7", "8", "9",
                 "A", "B", "C", "D", "E", "F", "P", "Q", "X"}

TAB == "\t"
NL == "\n"

\* str < str
RECURSIVE StrLess(_, _)
StrLess(a, b) ==
    IF b = <<>> THEN FALSE
    ELSE IF a = <<>> THEN TRUE
    ELSE IF a[1] # b[1] THEN Ord(a[1]) < Ord(b[1])
    ELSE StrLess(Tail(a), Tail(b))

\* Python evaluates an expression once and binds its value to a name: in
\* Only({e(x) : x \in {v}}) the value of v is computed once and e uses it as x
Only(S) == CHOOSE y \in S : TRUE

\* str.strip()
RECURSIVE LStrip(_)
LStrip(s0) ==
    Only({IF s # <<>> /\ s[1] \in Whitespace THEN LStrip(Tail(s)) ELSE s
            : s \in {s0}})

RECURSIVE RStrip(_)
RStrip(s0) ==
    Only({IF s # <<>> /\ s[Len(s)] \in Whitespace
          THEN RStrip(SubSeq(s, 1, Len(s) - 1)) ELSE s
            : s \in {s0}})

Strip(s) == RStrip(LStrip(s))

\* the position of the first sep in s
FirstSep(s, sep) ==
    CHOOSE j \in DOMAIN s : s[j] = sep /\ \A k \in 1..(j - 1) : s[k] # sep

\* str.split(sep)
RECURSIVE Split(_, _)
Split(s0, sep) ==
    Only({IF \E i \in DOMAIN s : s[i] = sep
          THEN Only({<<SubSeq(s, 1, i - 1)>> \o Split(SubSeq(s, i + 1, Len(s)), sep)
                       : i \in {FirstSep(s, sep)}})
          ELSE <<s>>
            : s \in {s0}})

\* the length of the longest run of [A-Z0-9] that starts at position i
RECURSIVE RunLen(_, _)
RunLen(s, i) ==
    IF i <= Len(s) /\ s[i] \in UpperOrDigit THEN 1 + RunLen(s, i + 1) ELSE 0

\* whether AF-([A-Z0-9]+)- matches at position i
MatchesAt(s, i) ==
    /\ i + 2 <= Len(s)
    /\ s[i] = "A" /\ s[i + 1] = "F" /\ s[i + 2] = "-"
    /\ RunLen(s, i + 3) >= 1
    /\ i + 3 + RunLen(s, i + 3) <= Len(s)
    /\ s[i + 3 + RunLen(s, i + 3)] = "-"

\* re.search(r"AF-([A-Z0-9]+)-", s): <<>> for None, <<group(1)>> for a match
ReSearch(s0) ==
    Only({IF \E i \in DOMAIN s : MatchesAt(s, i)
          THEN LET i == CHOOSE j \in DOMAIN s :
                            MatchesAt(s, j) /\ \A k \in 1..(j - 1) : ~MatchesAt(s, k)
               IN  <<SubSeq(s, i + 3, i + 2 + RunLen(s, i + 3))>>
          ELSE <<>>
            : s \in {s0}})

\* os.path.join(a, b)
Join(a, b) ==
    IF b # <<>> /\ b[1] = "/" THEN b
    ELSE IF a = <<>> \/ a[Len(a)] = "/" THEN a \o b
    ELSE a \o <<"/">> \o b

\* os.path.basename(p)
Basename(p) ==
    IF \E i \in DOMAIN p : p[i] = "/"
    THEN LET i == CHOOSE j \in DOMAIN p :
                      p[j] = "/" /\ \A k \in (j + 1)..Len(p) : p[k] # "/"
         IN  SubSeq(p, i + 1, Len(p))
    ELSE p

\* str(n) of a natural number
RECURSIVE Str(_)
Str(n) ==
    IF n < 10 THEN <<Alphabet[Ord("0") + n]>>
    ELSE Str(n \div 10) \o <<Alphabet[Ord("0") + (n % 10)]>>

-----------------------------------------------------------------------------
(* Names and paths *)

ModelSuffix == <<"-", "F", "1", "-", "m", "o", "d", "e", "l", "_", "v", "4",
                 ".", "p", "d", "b">>

\* f"AF-{acc}-F1-model_v4.pdb"
AfPdbFilename(acc) == <<"A", "F", "-">> \o acc \o ModelSuffix

pdb_output_folder == <<".", ".", "/", "s", "t", "r", "u", "c", "t", "u", "r", "e", "s">>

AfPdbPath(acc) == Join(pdb_output_folder, AfPdbFilename(acc))

UrlBase == "https://alphafold.ebi.ac.uk/files/"

\* f"https://alphafold.ebi.ac.uk/files/{filename}"
Url(filename) == [base |-> UrlBase, file |-> filename]

Exists(path) == path \in DOMAIN files


-----------------------------------------------------------------------------
(* The working directory the scripts start from *)

AccA == <<"P", "1">>
AccB == <<"Q", "2">>
AccC == <<"A", "0", "X">>

\* One line of the hits file, as the upstream tool writes it: a record with an
\* embedded accession in its second column, a record with a single column, or
\* a record whose second column embeds no accession (lower-case letters).
Line(rec) ==
    CASE rec.kind = "hit"     -> <<"q", TAB, "A", "F", "-">> \o rec.acc
                                   \o <<"-", "F", "1", TAB, "9", NL>>
      [] rec.kind = "nocol2"  -> <<"q", NL>>
      [] rec.kind = "nomatch" -> <<"q", TAB, "A", "F", "-", "p", "1", "-", "F", "1", NL>>

Hit(acc) == [kind |-> "hit", acc |-> acc]
NoCol2 == [kind |-> "nocol2", acc |-> <<>>]
NoMatch == [kind |-> "nomatch", acc |-> <<>>]

ExtractRecs == {Hit(AccA), Hit(AccB), Hit(AccC), NoCol2, NoMatch}
MainRecs == {Hit(AccA), Hit(AccB)}

SeqsUpTo(S, n) == UNION {[1..k -> S] : k \in 0..n}

HitsFile(rs) == <<[i \in DOMAIN rs |-> Line(rs[i])]>>

Body0 == "pdb0"
ResponseContent == "body"

\* a seed structure kept outside the structures directory
OtherSeedPath == Join(<<"s", "e", "e", "d", "s">>, AfPdbFilename(AccB))

InitialFiles ==
    {[p \in S |-> Body0] :
        S \in SUBSET {AfPdbPath(AccA), AfPdbPath(AccB), OtherSeedPath}}

Placeholder == "1,2,3"

RequiredKeys ==
    {"active_site", "selected_active", "aa_grouping", "random_seed", "threshold",
     "threshold_combinations", "aa_surrounding", "aa_surrounding_threshold",
     "threshold_others", "iterations", "first_in_file", "max_protein",
     "protein_file", "alphafold_proteins_path", "seed_protein_file", "path_results"}

BaseConfig ==
    [active_site |-> "45,67", selected_active |-> "1,2",
     aa_grouping |-> [pos |-> "KRH", neg |-> "DE"],
     random_seed |-> 7, threshold |-> 4, threshold_combinations |-> 2,
     aa_surrounding |-> 3, aa_surrounding_threshold |-> 1, threshold_others |-> 12,
     iterations |-> 10, first_in_file |-> 0, max_protein |-> 150,
     protein_file |-> "test.txt", alphafold_proteins_path |-> "../structures",
     seed_protein_file |-> AfPdbPath(AccA), path_results |-> "../results",
     KVFinder |-> TRUE, custom |-> FALSE]

SetKey(cfg, k, v) == [x \in DOMAIN cfg \cup {k} |-> IF x = k THEN v ELSE cfg[x]]
DelKey(cfg, k) == [x \in DOMAIN cfg \ {k} |-> cfg[x]]

\* config.json as an earlier step or the operator may have left it: complete,
\* with seed_protein_file empty or absent, and with a required field absent
InitialConfigs ==
    LET seeds == {BaseConfig,
                  SetKey(BaseConfig, "seed_protein_file", OtherSeedPath),
                  SetKey(BaseConfig, "seed_protein_file", <<>>),
                  DelKey(BaseConfig, "seed_protein_file")}
    IN  seeds \cup {DelKey(c, "threshold") : c \in seeds}

InitialSeedIds == {<<>>, <<AccB \o <<NL>>>>}

InitCommon ==
    /\ pc = "idle"
    /\ stage = "none"
    /\ manifest = <<>>
    /\ resultLog = <<>>
    /\ accessions = <<>>
    /\ unique_accessions = <<>>
    /\ idx = 1
    /\ actseek_command = <<>>
    /\ toolResult = <<>>
    /\ netLog = <<>>
    /\ writes = {}
    /\ toolCalls = 0
    /\ events = <<>>
    /\ files0 = files
    /\ config0 = config
    /\ seedFresh = FALSE

Init ==
    /\ recs \in {<<>>} \cup {<<rs>> : rs \in SeqsUpTo(MainRecs, MaxHits)}
    /\ hits = IF recs = <<>> THEN <<>> ELSE HitsFile(recs[1])
    /\ seedIdFile \in InitialSeedIds
    /\ files \in InitialFiles
    /\ config \in {<<>>} \cup {<<c>> : c \in InitialConfigs}
    /\ InitCommon

-----------------------------------------------------------------------------
(* Records of what a run does *)

Request(url, path, what, ok) == [url |-> url, path |-> path, what |-> what, ok |-> ok]

Written(file, path) == [file |-> file, path |-> path]

\* open(path, 'wb').write(response.content)
WriteFile(fs, path) ==
    [p \in DOMAIN fs \cup {path} |-> IF p = path THEN ResponseContent ELSE fs[p]]

Between == {"idle", "done", "fatal"}

\* a script starts: its locals and the run's record are fresh
StartRun(s, first) ==
    /\ pc \in Between
    /\ pc' = first
    /\ stage' = s
    /\ accessions' = <<>>
    /\ unique_accessions' = <<>>
    /\ idx' = 1
    /\ actseek_command' = <<>>
    /\ toolResult' = <<>>
    /\ netLog' = <<>>
    /\ writes' = {}
    /\ toolCalls' = 0
    /\ events' = <<>>
    /\ files0' = files
    /\ config0' = config
    /\ UNCHANGED <<hits, recs, seedIdFile, files, manifest, config, resultLog, seedFresh>>

-----------------------------------------------------------------------------
(* 02_ActSeek_process_pipeline.py *)

\* STEP 3, the body of the loop for one line: what it appends to accessions
LineAccessions(line) ==
    Only({IF Len(parts) >= 2 THEN ReSearch(parts[2]) ELSE <<>>
            : parts \in {Split(Strip(line), TAB)}})

\* STEP 3, the loop over the lines of the hits file
RECURSIVE ExtractRaw(_)
ExtractRaw(lines0) ==
    Only({IF lines = <<>> THEN <<>>
          ELSE LineAccessions(Head(lines)) \o ExtractRaw(Tail(lines))
            : lines \in {lines0}})

\* sorted(S) of a set of strings
RECURSIVE Sorted(_)
Sorted(S) ==
    IF S = {} THEN <<>>
    ELSE LET m == CHOOSE x \in S : \A y \in S \ {x} : StrLess(x, y)
         IN  <<m>> \o Sorted(S \ {m})

\* the variant that keeps the raw list: no set(), no sorted()
UniqueAccessions_NoDedup(raw) == raw

\* sorted(set(accessions))
UniqueAccessions(raw) == Only({Sorted(S) : S \in {Range(raw)}})

\* the variant without `continue`: the accession is written even when the
\* download failed
ManifestAfter_NoSkip(lines, acc, resolved) == Append(lines, acc)

\* the manifest after the loop body has run for acc; resolved is FALSE when
\* the download failed and the body ended at `continue`
ManifestAfter(lines, acc, resolved) ==
    IF resolved THEN Append(lines, acc) ELSE lines

\* the variant without the existence check: every file is downloaded
NeedsDownload_Always(path) == TRUE

\* `if not os.path.exists(af_pdb_path)`: whether the loop body downloads
NeedsDownload(path) == ~Exists(path)

\* the variant `if seed_path is None`: an empty seed_protein_file passes
SeedPathMissing_NoneOnly(cfg) == "seed_protein_file" \notin DOMAIN cfg

\* `if not seed_path`: config.get("seed_protein_file") is None or empty
SeedPathMissing(cfg) ==
    \/ "seed_protein_file" \notin DOMAIN cfg
    \/ cfg["seed_protein_file"] = <<>>

\* the variant that treats a failed seed download like a failed candidate
\* download: it is logged and the script goes on
SeedFetchNextPc_Continue(ok) == "m6"

\* where the main stage goes after the seed download: on to STEP 6, or sys.exit
SeedFetchNextPc(ok) == IF ok THEN "m6" ELSE "fatal"

\* the config[...] subscriptions of STEP 6 that raise KeyError
MissingRequired(cfg) == RequiredKeys \ DOMAIN cfg

\* config.get(flag) of STEP 6
Flag(cfg, k) == k \in DOMAIN cfg /\ cfg[k] = TRUE

\* json.dumps(value)
JsonDumps(v) == <<"json", v>>

\* STEP 6: the command line
BuildCommand(cfg) ==
    <<"actseek",
      "-a", cfg["active_site"],
      "-sa", cfg["selected_active"],
      "-g", JsonDumps(cfg["aa_grouping"]),
      "-r", Str(cfg["random_seed"]),
      "-t1", Str(cfg["threshold"]),
      "-t1c", Str(cfg["threshold_combinations"]),
      "-t2", Str(cfg["aa_surrounding"]),
      "-t2t", Str(cfg["aa_surrounding_threshold"]),
      "-t3", Str(cfg["threshold_others"]),
      "-i", Str(cfg["iterations"]),
      "-f", Str(cfg["first_in_file"]),
      "-m", Str(cfg["max_protein"]),
      "-s", cfg["protein_file"],
      "-af", cfg["alphafold_proteins_path"],
      "-p", cfg["seed_protein_file"],
      "-pr", cfg["path_results"]>>
    \o (IF Flag(cfg, "delete_protein_files") THEN <<"-d">> ELSE <<>>)
    \o (IF Flag(cfg, "KVFinder") THEN <<"-kv">> ELSE <<>>)
    \o (IF Flag(cfg, "custom") THEN <<"-c">> ELSE <<>>)

\* what the external tool may return: exit status, stdout, stderr
ToolOutcomes ==
    {[rc |-> 0, out |-> "OK", err |-> "warn"],
     [rc |-> 2, out |-> "", err |-> "bad input"],
     [rc |-> 1, out |-> "partial", err |-> "oops"]}

FailureMarker == "ACTSEEK_BATCH_FAILED\n"
StdoutLabel == "\nSTDOUT:\n"
StderrLabel == "\nSTDERR:\n"

\* the variant without check=True: a non-zero exit status raises nothing and
\* the success branch writes the log
ResultLogContent_NoCheck(r) == <<r.out>>

\* STEP 7: what is written to the result log, opened with 'w'; check=True
\* raises CalledProcessError on a non-zero exit status
ResultLogContent(r) ==
    IF r.rc = 0 THEN <<r.out>>
    ELSE <<FailureMarker, StdoutLabel, r.out, "\n", StderrLabel, r.err, "\n">>

StartMain == StartRun("main", "m1")

\* STEP 1 (and STEP 2, which only creates the structures directory)
Main_Step1 ==
    /\ pc = "m1"
    /\ pc' = IF hits = <<>> THEN "fatal" ELSE "m3"
    /\ UNCHANGED <<stage, hits, recs, seedIdFile, files, manifest, config, resultLog,
                   accessions, unique_accessions, idx, actseek_command, toolResult,
                   netLog, writes, toolCalls, events, files0, config0, seedFresh>>

\* STEP 3
Main_Step3 ==
    /\ pc = "m3"
    /\ \E raw \in {ExtractRaw(hits[1])} :
         /\ accessions' = raw
         /\ unique_accessions' = UniqueAccessions(raw)
    /\ events' = Append(events, "extract")
    /\ pc' = "m4"
    /\ UNCHANGED <<stage, hits, recs, seedIdFile, files, manifest, config, resultLog,
                   idx, actseek_command, toolResult, netLog, writes, toolCalls,
                   files0, config0, seedFresh>>

\* STEP 4: open(protein_list_file, 'w')
Main_Step4_Open ==
    /\ pc = "m4"
    /\ manifest' = <<<<>>>>
    /\ writes' = writes \cup {Written("manifest", <<>>)}
    /\ idx' = 1
    /\ pc' = "m4_loop"
    /\ UNCHANGED <<stage, hits, recs, seedIdFile, files, config, resultLog,
                   accessions, unique_accessions, actseek_command, toolResult,
                   netLog, toolCalls, events, files0, config0, seedFresh>>

\* STEP 4: one iteration of the loop over unique_accessions
Main_Step4_Fetch ==
    /\ pc = "m4_loop"
    /\ idx <= Len(unique_accessions)
    /\ LET acc == unique_accessions[idx]
           af_pdb_filename == AfPdbFilename(acc)
           af_pdb_path == Join(pdb_output_folder, af_pdb_filename)
       IN  IF NeedsDownload(af_pdb_path)
           THEN \E ok \in BOOLEAN :
                  /\ netLog' = Append(netLog,
                                 Request(Url(af_pdb_filename), af_pdb_path, "candidate", ok))
                  /\ files' = IF ok THEN WriteFile(files, af_pdb_path) ELSE files
                  /\ writes' = IF ok THEN writes \cup {Written("structure", af_pdb_path)}
                                     ELSE writes
                  /\ manifest' = <<ManifestAfter(manifest[1], acc, ok)>>
           ELSE /\ manifest' = <<ManifestAfter(manifest[1], acc, TRUE)>>
                /\ UNCHANGED <<netLog, files, writes>>
    /\ idx' = idx + 1
    /\ events' = Append(events, "fetch")
    /\ UNCHANGED <<pc, stage, hits, recs, seedIdFile, config, resultLog,
                   accessions, unique_accessions, actseek_command, toolResult,
                   toolCalls, files0, config0, seedFresh>>

\* STEP 4: the loop is over and the manifest is closed
Main_Step4_Close ==
    /\ pc = "m4_loop"
    /\ idx > Len(unique_accessions)
    /\ pc' = "m5"
    /\ UNCHANGED <<stage, hits, recs, seedIdFile, files, manifest, config, resultLog,
                   accessions, unique_accessions, idx, actseek_command, toolResult,
                   netLog, writes, toolCalls, events, files0, config0, seedFresh>>

\* STEP 5: config.json exists, is loaded, and names a seed
Main_Step5_Config ==
    /\ pc = "m5"
    /\ events' = Append(events, "validate")
    /\ pc' = IF config = <<>> THEN "fatal"
             ELSE IF SeedPathMissing(config[1]) THEN "fatal"
             ELSE "m5_seed"
    /\ UNCHANGED <<stage, hits, recs, seedIdFile, files, manifest, config, resultLog,
                   accessions, unique_accessions, idx, actseek_command, toolResult,
                   netLog, writes, toolCalls, files0, config0, seedFresh>>

\* STEP 5: the seed structure is downloaded when absent
Main_Step5_Seed ==
    /\ pc = "m5_seed"
    /\ LET seed_path == config[1]["seed_protein_file"]
           seed_filename == Basename(seed_path)
       IN  IF NeedsDownload(seed_path)
           THEN \E ok \in BOOLEAN :
                  /\ netLog' = Append(netLog,
                                 Request(Url(seed_filename), seed_path, "seed", ok))
                  /\ files' = IF ok THEN WriteFile(files, seed_path) ELSE files
                  /\ writes' = IF ok THEN writes \cup {Written("structure", seed_path)}
                                     ELSE writes
                  /\ pc' = SeedFetchNextPc(ok)
           ELSE /\ pc' = "m6"
                /\ UNCHANGED <<netLog, files, writes>>
    /\ events' = Append(events, "fetch-seed")
    /\ UNCHANGED <<stage, hits, recs, seedIdFile, manifest, config, resultLog,
                   accessions, unique_accessions, idx, actseek_command, toolResult,
                   toolCalls, files0, config0, seedFresh>>

\* STEP 6: a missing required field raises KeyError
Main_Step6 ==
    /\ pc = "m6"
    /\ events' = Append(events, "build")
    /\ IF MissingRequired(config[1]) # {}
       THEN pc' = "fatal" /\ UNCHANGED actseek_command
       ELSE pc' = "m7" /\ actseek_command' = BuildCommand(config[1])
    /\ UNCHANGED <<stage, hits, recs, seedIdFile, files, manifest, config, resultLog,
                   accessions, unique_accessions, idx, toolResult,
                   netLog, writes, toolCalls, files0, config0, seedFresh>>

\* STEP 7: the tool runs to completion and the result log is written
Main_Step7 ==
    /\ pc = "m7"
    /\ \E r \in ToolOutcomes :
         /\ toolResult' = <<r>>
         /\ resultLog' = <<ResultLogContent(r)>>
    /\ toolCalls' = toolCalls + 1
    /\ writes' = writes \cup {Written("result_log", <<>>)}
    /\ events' = Append(events, "run")
    /\ pc' = "done"
    /\ UNCHANGED <<stage, hits, recs, seedIdFile, files, manifest, config,
                   accessions, unique_accessions, idx, actseek_command,
                   netLog, files0, config0, seedFresh>>

MainStep ==
    \/ Main_Step1
    \/ Main_Step3
    \/ Main_Step4_Open
    \/ Main_Step4_Fetch
    \/ Main_Step4_Close
    \/ Main_Step5_Config
    \/ Main_Step5_Seed
    \/ Main_Step6
    \/ Main_Step7

-----------------------------------------------------------------------------
(* seed_selector.py *)

\* STEP 2: f.read().strip()
seed_accession == Strip(seedIdFile[1])

\* STEP 3
seed_structure_path ==
    Join(Join(<<".", ".">>, <<"s", "t", "r", "u", "c", "t", "u", "r", "e", "s">>),
         AfPdbFilename(seed_accession))

\* the variant that goes on to STEP 5 after a failed download
SelectorFetchNextPc_Continue(ok) == "s5"

\* where the seed-selection stage goes after the download: STEP 5, or sys.exit
SelectorFetchNextPc(ok) == IF ok THEN "s5" ELSE "fatal"

\* the variant config.setdefault("active_site", "1,2,3"): a value already set
\* is kept
UpdatedConfig_KeepActive(cfg, path) ==
    LET c == SetKey(cfg, "seed_protein_file", path)
    IN  IF "active_site" \in DOMAIN c THEN c ELSE SetKey(c, "active_site", Placeholder)

\* STEP 5: the two assignments to the loaded config
UpdatedConfig(cfg, path) ==
    SetKey(SetKey(cfg, "seed_protein_file", path), "active_site", Placeholder)

StartSeed == StartRun("seed", "s1")

\* STEP 1 (STEP 2 and STEP 3 compute seed_accession and seed_structure_path)
Seed_Step1 ==
    /\ pc = "s1"
    /\ pc' = IF seedIdFile = <<>> THEN "fatal" ELSE "s4"
    /\ UNCHANGED <<stage, hits, recs, seedIdFile, files, manifest, config, resultLog,
                   accessions, unique_accessions, idx, actseek_command, toolResult,
                   netLog, writes, toolCalls, events, files0, config0, seedFresh>>

\* STEP 4
Seed_Step4 ==
    /\ pc = "s4"
    /\ IF NeedsDownload(seed_structure_path)
       THEN \E ok \in BOOLEAN :
              /\ netLog' = Append(netLog,
                             Request(Url(AfPdbFilename(seed_accession)),
                                     seed_structure_path, "seed", ok))
              /\ files' = IF ok THEN WriteFile(files, seed_structure_path) ELSE files
              /\ writes' = IF ok THEN writes \cup {Written("structure", seed_structure_path)}
                                 ELSE writes
              /\ pc' = SelectorFetchNextPc(ok)
       ELSE /\ pc' = "s5"
            /\ UNCHANGED <<netLog, files, writes>>
    /\ events' = Append(events, "fetch-seed")
    /\ UNCHANGED <<stage, hits, recs, seedIdFile, manifest, config, resultLog,
                   accessions, unique_accessions, idx, actseek_command, toolResult,
                   toolCalls, files0, config0, seedFresh>>

\* STEP 5: config.json is checked, loaded, updated and written back
\* (config.json is held as the mapping json.load returns; json.dump writes the
\* whole mapping back, replacing the file)
Seed_Step5 ==
    /\ pc = "s5"
    /\ events' = Append(events, "config")
    /\ IF config = <<>>
       THEN /\ pc' = "fatal"
            /\ UNCHANGED <<config, writes, seedFresh>>
       ELSE /\ config' = <<UpdatedConfig(config[1], seed_structure_path)>>
            /\ writes' = writes \cup {Written("config", <<>>)}
            /\ seedFresh' = TRUE
            /\ pc' = "done"
    /\ UNCHANGED <<stage, hits, recs, seedIdFile, files, manifest, resultLog,
                   accessions, unique_accessions, idx, actseek_command, toolResult,
                   netLog, toolCalls, files0, config0>>

SeedStep ==
    \/ Seed_Step1
    \/ Seed_Step4
    \/ Seed_Step5

-----------------------------------------------------------------------------
(* The operator, between runs *)

\* a structure file is removed from the structures directory
RemoveFile(fs, path) == [p \in DOMAIN fs \ {path} |-> fs[p]]

EnvRemove ==
    /\ pc \in Between
    /\ \E path \in DOMAIN files : files' = RemoveFile(files, path)
    /\ seedFresh' = FALSE
    /\ UNCHANGED <<pc, stage, hits, recs, seedIdFile, manifest, config, resultLog,
                   accessions, unique_accessions, idx, actseek_command, toolResult,
                   netLog, writes, toolCalls, events, files0, config0>>

-----------------------------------------------------------------------------
(* Specifications *)

Next ==
    \/ StartMain
    \/ StartSeed
    \/ MainStep
    \/ SeedStep
    \/ EnvRemove

Spec == Init /\ [][Next]_vars

\* Every call of the scripts is blocking and returns: a running script takes
\* its next step.
FairSpec == Spec /\ WF_vars(MainStep) /\ WF_vars(SeedStep)

\* Accession extraction alone: the main stage from its start to the end of
\* STEP 3, over every hits file of up to MaxLines records
ExtractInit ==
    /\ recs \in {<<>>} \cup {<<rs>> : rs \in SeqsUpTo(ExtractRecs, MaxLines)}
    /\ hits = IF recs = <<>> THEN <<>> ELSE HitsFile(recs[1])
    /\ seedIdFile = <<>>
    /\ files = <<>>
    /\ config = <<>>
    /\ InitCommon

ExtractNext ==
    \/ StartMain /\ pc = "idle"
    \/ Main_Step1
    \/ Main_Step3

ExtractSpec == ExtractInit /\ [][ExtractNext]_vars

-----------------------------------------------------------------------------
(* Vocabulary of the properties *)

Running == pc \notin Between

\* the candidate fetch loop of the current main-stage run has ended
LoopEnded ==
    /\ stage = "main"
    /\ \/ pc \in {"m5", "m5_seed", "m6", "m7", "done"}
       \/ pc = "fatal" /\ "validate" \in Range(events)

Requests(what) == {i \in DOMAIN netLog : netLog[i].what = what}

StructureWrites == {w.path : w \in {x \in writes : x.file = "structure"}}

\* the file at path was there when the run started, or the run downloaded it
ResolvedInRun(path) ==
    \/ path \in DOMAIN files0
    \/ \E i \in DOMAIN netLog : netLog[i].path = path /\ netLog[i].ok

Ascending(s) == \A i, j \in DOMAIN s : i < j => StrLess(s[i], s[j])

-----------------------------------------------------------------------------
(* C1 *)

\* C1: when the candidate fetch loop of the main stage has ended, the manifest
\* holds exactly the accessions whose structure file was present at the start
\* of the run or was downloaded by it, each once, in ascending order; every
\* extracted accession was processed, and one whose download failed is absent.
C1_Manifest ==
    LoopEnded =>
        /\ manifest # <<>>
        /\ Range(manifest[1]) =
              {a \in Range(unique_accessions) :
                  \/ AfPdbPath(a) \in DOMAIN files0
                  \/ \E i \in Requests("candidate") :
                        netLog[i].path = AfPdbPath(a) /\ netLog[i].ok}
        /\ Ascending(manifest[1])
        /\ \A a \in Range(unique_accessions) :
              \/ AfPdbPath(a) \in DOMAIN files0
              \/ \E i \in Requests("candidate") : netLog[i].path = AfPdbPath(a)
        /\ \A i \in Requests("candidate") :
              ~netLog[i].ok =>
                 \A k \in DOMAIN manifest[1] : AfPdbPath(manifest[1][k]) # netLog[i].path

\* the first download failed, the second succeeded and is in the manifest
C1_Witness ==
    /\ LoopEnded
    /\ Len(netLog) >= 2
    /\ ~netLog[1].ok /\ netLog[1].what = "candidate"
    /\ netLog[2].ok /\ netLog[2].what = "candidate"
    /\ manifest = <<<<AccB>>>>

-----------------------------------------------------------------------------
(* C2 *)

\* C2: in either stage, a structure file that exists when its fetch step runs
\* is neither requested nor written: no request and no write of a run is for
\* a file present at the start of the run, a file the run downloaded is not
\* requested again, and while the run lasts every file present at its start
\* keeps its content.
C2_Idempotent ==
    /\ \A i \in DOMAIN netLog : netLog[i].path \notin DOMAIN files0
    /\ StructureWrites \cap DOMAIN files0 = {}
    /\ \A i, j \in DOMAIN netLog :
          i < j /\ netLog[i].ok => netLog[j].path # netLog[i].path
    /\ Running =>
          \A p \in DOMAIN files0 : p \in DOMAIN files /\ files[p] = files0[p]

\* a main-stage run over two candidates and a seed, all present (one of them
\* downloaded by an earlier run), has ended without a request
C2_Witness ==
    /\ stage = "main" /\ pc = "done"
    /\ netLog = <<>>
    /\ StructureWrites = {}
    /\ Len(manifest[1]) = 2
    /\ \E p \in DOMAIN files0 : files0[p] = ResponseContent

-----------------------------------------------------------------------------
(* C3 *)

\* C3: in the main stage, when config.json has seed_protein_file absent or
\* empty, the run never gets past the validation of STEP 5: no request for
\* the seed structure is made, the tool is not invoked, and the run does not
\* end normally.
C3_NoSeedField ==
    ( /\ stage = "main"
      /\ config # <<>>
      /\ \/ "seed_protein_file" \notin DOMAIN config[1]
         \/ config[1]["seed_protein_file"] = <<>> )
    => /\ Requests("seed") = {}
       /\ toolCalls = 0
       /\ pc \notin {"m5_seed", "m6", "m7", "done"}

\* the run has aborted at the validation, with an empty seed_protein_file,
\* after it made requests for candidates
C3_Witness ==
    /\ stage = "main" /\ pc = "fatal"
    /\ "validate" \in Range(events)
    /\ config # <<>>
    /\ "seed_protein_file" \in DOMAIN config[1]
    /\ config[1]["seed_protein_file"] = <<>>
    /\ netLog # <<>>

-----------------------------------------------------------------------------
(* C4 *)

\* C4: in the main stage the tool is about to be invoked only when every
\* required field is in the config and the seed structure file exists; a run
\* whose seed download failed, or whose config lacks a required field, does
\* not invoke the tool, does not write the result log and does not end
\* normally.
C4_ToolGuard ==
    stage = "main" =>
        /\ pc = "m7" =>
              /\ config # <<>>
              /\ RequiredKeys \subseteq DOMAIN config[1]
              /\ config[1]["seed_protein_file"] \in DOMAIN files
        /\ toolCalls > 0 =>
              /\ RequiredKeys \subseteq DOMAIN config[1]
              /\ ResolvedInRun(config[1]["seed_protein_file"])
        /\ ( \/ \E i \in Requests("seed") : ~netLog[i].ok
             \/ config = <<>>
             \/ ~(RequiredKeys \subseteq DOMAIN config[1]) )
           => /\ toolCalls = 0
              /\ Written("result_log", <<>>) \notin writes
              /\ pc \notin {"m7", "done"}

\* the run downloaded the seed and then aborted at the command construction,
\* for a required field that the config lacks
C4_Witness ==
    /\ stage = "main" /\ pc = "fatal"
    /\ events # <<>> /\ events[Len(events)] = "build"
    /\ \E i \in Requests("seed") : netLog[i].ok
    /\ "threshold" \notin DOMAIN config[1]

-----------------------------------------------------------------------------
(* C5 *)

\* C5: once the tool has returned, the run has ended normally and the result
\* log is what this run wrote: the captured standard output alone on exit
\* status zero, and otherwise the failure marker line, the labeled standard
\* output and the labeled standard error.
C5_ResultLog ==
    (stage = "main" /\ toolResult # <<>>) =>
        /\ pc = "done"
        /\ resultLog # <<>>
        /\ LET r == toolResult[1]
               log == resultLog[1]
           IN  /\ r.rc = 0 =>
                     /\ log = <<r.out>>
                     /\ "ACTSEEK_BATCH_FAILED\n" \notin Range(log)
               /\ r.rc # 0 =>
                     /\ log[1] = "ACTSEEK_BATCH_FAILED\n"
                     /\ log = <<"ACTSEEK_BATCH_FAILED\n",
                                "\nSTDOUT:\n", r.out, "\n",
                                "\nSTDERR:\n", r.err, "\n">>

\* the tool has failed with exit status 2 and "bad input" on standard error
C5_Witness ==
    /\ stage = "main" /\ pc = "done"
    /\ toolResult # <<>>
    /\ toolResult[1].rc = 2
    /\ resultLog[1][6] = "bad input"

-----------------------------------------------------------------------------
(* C6 *)

\* a hits file of 5 records: one without a second column, four with an
\* embedded accession, exactly two of which share theirs; extraction is done
C6_Case ==
    /\ stage = "main" /\ pc = "m4"
    /\ recs # <<>>
    /\ Len(recs[1]) = 5
    /\ Cardinality({i \in 1..5 : recs[1][i].kind = "nocol2"}) = 1
    /\ Cardinality({i \in 1..5 : recs[1][i].kind = "hit"}) = 4
    /\ Cardinality({p \in (1..5) \X (1..5) :
                      /\ p[1] < p[2]
                      /\ recs[1][p[1]].kind = "hit"
                      /\ recs[1][p[2]].kind = "hit"
                      /\ recs[1][p[1]].acc = recs[1][p[2]].acc}) = 1

\* C6 as stated: for such a file the unique-accession count is 4.
C6_Original == C6_Case => Len(unique_accessions) = 4

\* C6 as amended: for such a file the raw hit count is 4 and the
\* unique-accession count is 3.
C6_Amended == C6_Case => Len(accessions) = 4 /\ Len(unique_accessions) = 3

\* such a file has been extracted
C6_Witness == C6_Case /\ unique_accessions = <<AccC, AccA, AccB>>

-----------------------------------------------------------------------------
(* C7 *)

\* C7: when the seed-selection stage has ended normally for the recorded
\* accession A, config.json has seed_protein_file equal to the structures
\* directory joined with AF-{A}-F1-model_v4.pdb and active_site equal to
\* "1,2,3", and every other field as it was before the run.
C7_SeedConfig ==
    (stage = "seed" /\ pc = "done") =>
        /\ config # <<>> /\ config0 # <<>>
        /\ \A a \in {AccA, AccB, AccC} :
              seedIdFile = <<a \o <<"\n">>>> =>
                 config[1]["seed_protein_file"] =
                    pdb_output_folder \o <<"/", "A", "F", "-">> \o a \o ModelSuffix
        /\ config[1]["active_site"] = "1,2,3"
        /\ DOMAIN config[1] = DOMAIN config0[1] \cup {"seed_protein_file", "active_site"}
        /\ \A k \in DOMAIN config0[1] \ {"seed_protein_file", "active_site"} :
              config[1][k] = config0[1][k]

\* the run started with another active_site and without seed_protein_file
C7_Witness ==
    /\ stage = "seed" /\ pc = "done"
    /\ config0[1]["active_site"] = "45,67"
    /\ "seed_protein_file" \notin DOMAIN config0[1]
    /\ "threshold" \notin DOMAIN config[1]

-----------------------------------------------------------------------------
(* C8 *)

\* C8 as stated: in the seed-selection stage, when config.json is absent, no
\* request is made and no structure file is written.
C8_Original ==
    (stage = "seed" /\ config0 = <<>>) =>
        /\ netLog = <<>>
        /\ StructureWrites = {}
        /\ pc # "done"

\* C8 as amended: in the seed-selection stage, when config.json is absent the
\* run does not end normally and config.json stays absent, but the config is
\* checked only after the seed fetch step: by then at most one request has
\* been made, and at the check the seed structure file is present (it was
\* there before, or this run downloaded it).
C8_Amended ==
    (stage = "seed" /\ config0 = <<>>) =>
        /\ pc # "done"
        /\ config = <<>>
        /\ Written("config", <<>>) \notin writes
        /\ Len(netLog) <= 1
        /\ "config" \in Range(events) =>
              /\ events = <<"fetch-seed", "config">>
              /\ pc = "fatal"
              /\ ResolvedInRun(seed_structure_path)

\* the run downloaded the seed and then aborted for the absent config.json
C8_Witness ==
    /\ stage = "seed" /\ pc = "fatal"
    /\ config0 = <<>>
    /\ "config" \in Range(events)
    /\ Len(netLog) = 1 /\ netLog[1].ok
    /\ StructureWrites # {}

-----------------------------------------------------------------------------
(* C9 *)

PhaseRank(e) ==
    CASE e = "extract"    -> 1
      [] e = "fetch"      -> 2
      [] e = "validate"   -> 3
      [] e = "fetch-seed" -> 4
      [] e = "build"      -> 5
      [] e = "run"        -> 6

\* the steps of a main-stage run come in the order extract, fetch (for each
\* candidate), validate, fetch-seed, build, run, each but fetch at most once
C9_Ordered ==
    /\ \A i, j \in DOMAIN events :
          i < j => /\ PhaseRank(events[i]) <= PhaseRank(events[j])
                   /\ PhaseRank(events[i]) = PhaseRank(events[j])
                         => events[i] = "fetch"
    /\ Cardinality({i \in DOMAIN events : events[i] = "fetch"}) <= Len(unique_accessions)
    /\ \A i \in Requests("candidate") : \A j \in Requests("seed") : i < j

\* C9 as stated (its safety part): the steps are in order, no URL is requested
\* twice in a run, and the tool is invoked at most once.
C9_Original ==
    stage = "main" =>
        /\ C9_Ordered
        /\ \A i, j \in DOMAIN netLog : i < j => netLog[i].url # netLog[j].url
        /\ toolCalls <= 1

\* the requests of a main-stage run: one per candidate at most, one for the
\* seed at most, and the seed's URL is one already requested only when that
\* request was for a candidate and failed, or wrote to another path
C9_Requests ==
    /\ \A i, j \in Requests("candidate") : i < j => netLog[i].url # netLog[j].url
    /\ Cardinality(Requests("seed")) <= 1
    /\ \A i, j \in DOMAIN netLog :
          (i < j /\ netLog[i].url = netLog[j].url) =>
              /\ netLog[i].what = "candidate" /\ netLog[j].what = "seed"
              /\ ~netLog[i].ok \/ netLog[i].path # netLog[j].path

C9_Safety == stage = "main" => C9_Ordered /\ C9_Requests /\ toolCalls <= 1

\* C9 as amended: every run of the main stage terminates, its steps are in
\* the order extract, fetch-all, validate-config, fetch-seed, build, run, the
\* tool is invoked at most once, and each URL is requested at most once in
\* the candidate loop and at most once for the seed (so at most twice, the
\* second time for the seed after a failed or differently placed candidate
\* download).
C9_Amended ==
    /\ []C9_Safety
    /\ (stage = "main" /\ Running) ~> (pc \in {"done", "fatal"})

\* the download of a candidate failed and the same URL was requested again
\* for the seed
C9_Witness ==
    /\ stage = "main" /\ pc = "fatal"
    /\ Len(netLog) = 2
    /\ netLog[1].url = netLog[2].url
    /\ ~netLog[1].ok /\ ~netLog[2].ok

-----------------------------------------------------------------------------
(* C10 *)

\* C10: the seed-selection stage changes config.json only when it ends
\* normally, with the seed structure file present, and leaves it as it was on
\* every abort; so after a seed-selection run that ended normally, with no
\* structure file removed since, the file that seed_protein_file names
\* exists and a main-stage run makes no request for the seed.
C10_SeedThenMain ==
    /\ stage = "seed" =>
          /\ config # config0 =>
                /\ pc = "done"
                /\ ResolvedInRun(config[1]["seed_protein_file"])
          /\ pc = "fatal" => config = config0
    /\ seedFresh =>
          /\ config # <<>>
          /\ "seed_protein_file" \in DOMAIN config[1]
          /\ config[1]["seed_protein_file"] \in DOMAIN files
    /\ (stage = "main" /\ seedFresh) => Requests("seed") = {}

\* a main-stage run after a seed-selection run that downloaded the seed has
\* passed its seed step
C10_Witness ==
    /\ stage = "main" /\ seedFresh
    /\ "fetch-seed" \in Range(events)
    /\ files[config[1]["seed_protein_file"]] = ResponseContent
    /\ netLog # <<>>

=============================================================================
